---- MODULE Spec2Model ----
(***************************************************************************)
(* Model of the flight_delays data-preparation pipeline:                   *)
(*   src/src/flight_delays/nodes.py    select_cols, clean_data,            *)
(*                                     feature_extraction, split_data      *)
(*   src/src/flight_delays/pipeline.py create_pipeline                     *)
(*                                                                         *)
(* A table (pyspark DataFrame) is a record [cols, rows]: cols is the       *)
(* ordered list of column names, rows a sequence of rows, each row a       *)
(* sequence of cell values aligned with cols.  A string is a sequence of   *)
(* one-character strings, so that upper, trim, length, split and the cast  *)
(* to integer are computed character by character.                         *)
(*                                                                         *)
(* Two specifications:                                                     *)
(*   Spec          calls the four node functions directly, in any order,   *)
(*                 on tables drawn from bounded sets and on each other's   *)
(*                 outputs;                                                *)
(*   PipelineSpec  runs the nodes wired by create_pipeline, a node being   *)
(*                 runnable once all its input datasets exist.             *)
(***************************************************************************)
EXTENDS Integers, Sequences, FiniteSets, Bags, TLC

VARIABLES df, res, trace, catalog, parameters, log

vars == <<df, res, trace, catalog, parameters, log>>

\* Bounds of the model.
MaxRows == 2
MaxCalls == 3

(***************************************************************************)
(* Cell values.  k is the kind: "null", "int", "double" (the rational      *)
(* n/d) or "str" (the characters s).                                       *)
(***************************************************************************)
Null == [k |-> "null", n |-> 0, d |-> 1, s |-> <<>>]

IntV(i) == [k |-> "int", n |-> i, d |-> 1, s |-> <<>>]

DoubleV(num, den) == [k |-> "double", n |-> num, d |-> den, s |-> <<>>]

StrV(cs) == [k |-> "str", n |-> 0, d |-> 1, s |-> cs]

isNull(v) == v.k = "null"

\* The errors the dataframe engine raises: an unresolved column name
\* (the specification's SchemaError) and a rejected argument value
\* (the specification's ConfigurationError).
AnalysisException == "AnalysisException"

ValueError == "ValueError"

Ok(tables) == [err |-> "none", out |-> tables]

Fail(e) == [err |-> e, out |-> <<>>]

(***************************************************************************)
(* Column functions of pyspark.sql.functions, on one cell.                 *)
(***************************************************************************)
UpperChar(c) ==
  CASE c = "a" -> "A"
    [] c = "d" -> "D"
    [] c = "l" -> "L"
    [] c = "u" -> "U"
    [] OTHER -> c

upper(v) == IF isNull(v) THEN Null ELSE StrV([i \in 1..Len(v.s) |-> UpperChar(v.s[i])])

RECURSIVE TrimLeft(_)
TrimLeft(cs) == IF cs # <<>> /\ Head(cs) = " " THEN TrimLeft(Tail(cs)) ELSE cs

RECURSIVE TrimRight(_)
TrimRight(cs) ==
  IF cs # <<>> /\ cs[Len(cs)] = " " THEN TrimRight(SubSeq(cs, 1, Len(cs) - 1)) ELSE cs

trim(v) == IF isNull(v) THEN Null ELSE StrV(TrimRight(TrimLeft(v.s)))

length(v) == IF isNull(v) THEN Null ELSE IntV(Len(v.s))

\* split(str, "-"): the segments between the delimiters, empty ones kept.
RECURSIVE SplitChars(_, _, _)
SplitChars(cs, sep, cur) ==
  IF cs = <<>> THEN <<cur>>
  ELSE IF Head(cs) = sep THEN <<cur>> \o SplitChars(Tail(cs), sep, <<>>)
  ELSE SplitChars(Tail(cs), sep, Append(cur, Head(cs)))

split(v, sep) == IF isNull(v) THEN <<>> ELSE SplitChars(v.s, sep, <<>>)

\* Column.getItem on an array, zero-based; null past the end and on null.
getItem(arr, idx) == IF idx + 1 <= Len(arr) THEN StrV(arr[idx + 1]) ELSE Null

IsDigit(c) == c \in {"0", "1", "2", "3", "4", "5", "6", "7", "8", "9"}

DigitVal(c) ==
  CASE c = "0" -> 0 [] c = "1" -> 1 [] c = "2" -> 2 [] c = "3" -> 3 [] c = "4" -> 4
    [] c = "5" -> 5 [] c = "6" -> 6 [] c = "7" -> 7 [] c = "8" -> 8 [] c = "9" -> 9

RECURSIVE DigitsVal(_)
DigitsVal(cs) ==
  IF cs = <<>> THEN 0
  ELSE 10 * DigitsVal(SubSeq(cs, 1, Len(cs) - 1)) + DigitVal(cs[Len(cs)])

AllDigits(cs) == cs # <<>> /\ \A i \in 1..Len(cs) : IsDigit(cs[i])

\* A string read as a number: optional sign, then digits; anything else is
\* not a number (null).
ParseNumber(cs) ==
  IF cs # <<>> /\ cs[1] = "-" /\ AllDigits(Tail(cs)) THEN IntV(0 - DigitsVal(Tail(cs)))
  ELSE IF cs # <<>> /\ cs[1] = "+" /\ AllDigits(Tail(cs)) THEN IntV(DigitsVal(Tail(cs)))
  ELSE IF AllDigits(cs) THEN IntV(DigitsVal(cs))
  ELSE Null

\* col / 100: true division; a string operand is first read as a number.
Divide(v, m) ==
  LET x == IF v.k = "str" THEN ParseNumber(v.s) ELSE v
  IN  IF isNull(x) THEN Null ELSE DoubleV(x.n, x.d * m)

\* Mutant of Truncate: rounds down instead of toward zero.
Floor(num, den) == num \div den

\* The quotient num/den (den > 0) with its fraction discarded.
Truncate(num, den) == IF num >= 0 THEN num \div den ELSE 0 - ((0 - num) \div den)

\* Column.cast(types.IntegerType()).
cast_IntegerType(v) ==
  CASE v.k = "null" -> Null
    [] v.k = "int" -> v
    [] v.k = "double" -> IntV(Truncate(v.n, v.d))
    [] v.k = "str" -> ParseNumber(v.s)

(***************************************************************************)
(* DataFrame operations, on a table [cols, rows].                          *)
(***************************************************************************)
HasCol(t, c) == \E i \in 1..Len(t.cols) : t.cols[i] = c

ColIndex(t, c) == CHOOSE i \in 1..Len(t.cols) : t.cols[i] = c

\* The cells of column c, one per row.
Column(t, c) == [r \in 1..Len(t.rows) |-> t.rows[r][ColIndex(t, c)]]

\* The elements of seq at the positions where keep is TRUE, in order.
RECURSIVE Filter(_, _)
Filter(seq, keep) ==
  IF seq = <<>> THEN <<>>
  ELSE (IF Head(keep) THEN <<Head(seq)>> ELSE <<>>) \o Filter(Tail(seq), Tail(keep))

\* DataFrame.select(names): the named columns, in the order given.
select(t, names) ==
  [cols |-> names,
   rows |-> [r \in 1..Len(t.rows) |->
               [j \in 1..Len(names) |-> t.rows[r][ColIndex(t, names[j])]]]]

\* DataFrame.drop(name): without the column; a no-op when it is absent.
drop(t, c) ==
  IF ~HasCol(t, c) THEN t
  ELSE LET keep == [i \in 1..Len(t.cols) |-> t.cols[i] # c]
       IN  [cols |-> Filter(t.cols, keep),
            rows |-> [r \in 1..Len(t.rows) |-> Filter(t.rows[r], keep)]]

\* DataFrame.dropna(): the rows no cell of which is missing.
dropna(t) ==
  [cols |-> t.cols,
   rows |-> Filter(t.rows,
                   [r \in 1..Len(t.rows) |->
                      \A j \in 1..Len(t.cols) : ~isNull(t.rows[r][j])])]

\* DataFrame.withColumn(name, values): replaces the column of that name in
\* place when there is one, appends a new last column otherwise.
withColumn(t, c, vals) ==
  IF HasCol(t, c)
  THEN [cols |-> t.cols,
        rows |-> [r \in 1..Len(t.rows) |->
                    [j \in 1..Len(t.cols) |->
                       IF j = ColIndex(t, c) THEN vals[r] ELSE t.rows[r][j]]]]
  ELSE [cols |-> Append(t.cols, c),
        rows |-> [r \in 1..Len(t.rows) |-> Append(t.rows[r], vals[r])]]

\* DataFrame.where(cond): the rows whose condition is true (not false, not null).
where(t, cond) == [cols |-> t.cols, rows |-> Filter(t.rows, cond)]

\* Mutant of randomSplit: the second cell starts at 0 instead of at the end
\* of the first.
randomSplit_Overlapping(t, weights, draws) ==
  LET total == weights[1] + weights[2]
      inTrain == [r \in 1..Len(t.rows) |-> draws[r] * total < weights[1] * 10]
      inTest == [r \in 1..Len(t.rows) |-> draws[r] < 10]
  IN  <<[cols |-> t.cols, rows |-> Filter(t.rows, inTrain)],
        [cols |-> t.cols, rows |-> Filter(t.rows, inTest)]>>

\* DataFrame.randomSplit([w1, w2]): the weights are normalised to the cell
\* bounds 0, w1/(w1+w2), 1; a row whose draw x (0 <= x < 1) falls in the first
\* cell goes to the first table, in the second cell to the second.  Draws and
\* weights are in tenths.
randomSplit(t, weights, draws) ==
  LET total == weights[1] + weights[2]
      inTrain == [r \in 1..Len(t.rows) |-> draws[r] * total < weights[1] * 10]
      inTest == [r \in 1..Len(t.rows) |->
                   draws[r] * total >= weights[1] * 10 /\ draws[r] < 10]
  IN  <<[cols |-> t.cols, rows |-> Filter(t.rows, inTrain)],
        [cols |-> t.cols, rows |-> Filter(t.rows, inTest)]>>

(***************************************************************************)
(* The node functions of nodes.py.  Each returns Ok(<<tables>>) or Fail(e).*)
(***************************************************************************)
\* Mutant of select_cols: keeps the table's column order, not that of l_cols.
select_cols_TableOrder(t, params) ==
  IF \A j \in 1..Len(params.l_cols) : HasCol(t, params.l_cols[j])
  THEN Ok(<<select(t, Filter(t.cols,
                             [i \in 1..Len(t.cols) |->
                                \E j \in 1..Len(params.l_cols) : params.l_cols[j] = t.cols[i]]))>>)
  ELSE Fail(AnalysisException)

\* Mutant of select_cols: leaves out the names that are no column of the table.
select_cols_SkipMissing(t, params) ==
  Ok(<<select(t, Filter(params.l_cols,
                        [j \in 1..Len(params.l_cols) |-> HasCol(t, params.l_cols[j])]))>>)

select_cols(t, params) ==
  IF \A j \in 1..Len(params.l_cols) : HasCol(t, params.l_cols[j])
  THEN Ok(<<select(t, params.l_cols)>>)
  ELSE Fail(AnalysisException)

\* Mutant of clean_data: the airline code is upper-cased but not trimmed.
clean_data_NoTrim(t, params) ==
  LET d1 == dropna(t)
      airline == [r \in 1..Len(d1.rows) |-> upper(Column(d1, "Reporting_Airline")[r])]
      d2 == withColumn(d1, "Airline", airline)
      len == [r \in 1..Len(d2.rows) |-> length(Column(d2, "Airline")[r])]
      d3 == where(d2, [r \in 1..Len(d2.rows) |-> len[r] = IntV(2)])
  IN  IF ~HasCol(d1, "Reporting_Airline") THEN Fail(AnalysisException)
      ELSE Ok(<<drop(d3, "Reporting_Airline")>>)

\* Mutant of clean_data: a table already cleaned (Airline, no
\* Reporting_Airline) is returned as it is.
clean_data_Idempotent(t, params) ==
  LET d1 == dropna(t)
      airline == [r \in 1..Len(d1.rows) |-> trim(upper(Column(d1, "Reporting_Airline")[r]))]
      d2 == withColumn(d1, "Airline", airline)
      len == [r \in 1..Len(d2.rows) |-> length(Column(d2, "Airline")[r])]
      d3 == where(d2, [r \in 1..Len(d2.rows) |-> len[r] = IntV(2)])
  IN  IF ~HasCol(d1, "Reporting_Airline")
      THEN (IF HasCol(t, "Airline") THEN Ok(<<t>>) ELSE Fail(AnalysisException))
      ELSE Ok(<<drop(d3, "Reporting_Airline")>>)

clean_data(t, params) ==
  LET d1 == dropna(t)
      airline == [r \in 1..Len(d1.rows) |-> trim(upper(Column(d1, "Reporting_Airline")[r]))]
      d2 == withColumn(d1, "Airline", airline)
      len == [r \in 1..Len(d2.rows) |-> length(Column(d2, "Airline")[r])]
      d3 == where(d2, [r \in 1..Len(d2.rows) |-> len[r] = IntV(2)])
  IN  IF ~HasCol(d1, "Reporting_Airline") THEN Fail(AnalysisException)
      ELSE Ok(<<drop(d3, "Reporting_Airline")>>)

\* Mutant of feature_extraction: the rows with a null derived field are dropped.
feature_extraction_DropNa(t, params) ==
  LET hour == [r \in 1..Len(t.rows) |->
                 cast_IntegerType(Divide(Column(t, "DepTime")[r], 100))]
      d1 == drop(withColumn(t, "DepHour", hour), "DepTime")
      month == [r \in 1..Len(d1.rows) |->
                  cast_IntegerType(getItem(split(Column(d1, "FlightDate")[r], "-"), 1))]
      d2 == withColumn(d1, "DepMonth", month)
      year == [r \in 1..Len(d2.rows) |->
                 cast_IntegerType(getItem(split(Column(d2, "FlightDate")[r], "-"), 0))]
      d3 == withColumn(d2, "DepYear", year)
  IN  IF ~HasCol(t, "DepTime") THEN Fail(AnalysisException)
      ELSE IF ~HasCol(d1, "FlightDate") THEN Fail(AnalysisException)
      ELSE Ok(<<dropna(drop(d3, "FlightDate"))>>)

feature_extraction(t, params) ==
  LET hour == [r \in 1..Len(t.rows) |->
                 cast_IntegerType(Divide(Column(t, "DepTime")[r], 100))]
      d1 == drop(withColumn(t, "DepHour", hour), "DepTime")
      month == [r \in 1..Len(d1.rows) |->
                  cast_IntegerType(getItem(split(Column(d1, "FlightDate")[r], "-"), 1))]
      d2 == withColumn(d1, "DepMonth", month)
      year == [r \in 1..Len(d2.rows) |->
                 cast_IntegerType(getItem(split(Column(d2, "FlightDate")[r], "-"), 0))]
      d3 == withColumn(d2, "DepYear", year)
  IN  IF ~HasCol(t, "DepTime") THEN Fail(AnalysisException)
      ELSE IF ~HasCol(d1, "FlightDate") THEN Fail(AnalysisException)
      ELSE Ok(<<drop(d3, "FlightDate")>>)

\* Mutant of split_data: the tuple is returned as (X_train, y_train, X_test, y_test).
split_data_PairedOrder(data, params, draws) ==
  LET d0 == select(data, params.features)
      weights == <<params.train_fraction, 10 - params.train_fraction>>
      parts == randomSplit(d0, weights, draws)
      data_train == parts[1]
      data_test == parts[2]
      X_train == drop(data_train, params.target_column)
      X_test == drop(data_test, params.target_column)
      y_train == select(data_train, <<params.target_column>>)
      y_test == select(data_test, <<params.target_column>>)
  IN  IF \E j \in 1..Len(params.features) : ~HasCol(data, params.features[j])
      THEN Fail(AnalysisException)
      ELSE IF weights[1] < 0 \/ weights[2] < 0 THEN Fail(ValueError)
      ELSE IF ~HasCol(data_train, params.target_column) THEN Fail(AnalysisException)
      ELSE Ok(<<X_train, y_train, X_test, y_test>>)

\* draws: the random number the split draws for each row, in tenths.
split_data(data, params, draws) ==
  LET d0 == select(data, params.features)
      weights == <<params.train_fraction, 10 - params.train_fraction>>
      parts == randomSplit(d0, weights, draws)
      data_train == parts[1]
      data_test == parts[2]
      X_train == drop(data_train, params.target_column)
      X_test == drop(data_test, params.target_column)
      y_train == select(data_train, <<params.target_column>>)
      y_test == select(data_test, <<params.target_column>>)
  IN  IF \E j \in 1..Len(params.features) : ~HasCol(data, params.features[j])
      THEN Fail(AnalysisException)
      ELSE IF weights[1] < 0 \/ weights[2] < 0 THEN Fail(ValueError)
      ELSE IF ~HasCol(data_train, params.target_column) THEN Fail(AnalysisException)
      ELSE Ok(<<X_train, X_test, y_train, y_test>>)

(***************************************************************************)
(* The wiring of pipeline.py: the nodes, with their input and output       *)
(* dataset names.                                                          *)
(***************************************************************************)
\* Mutant of create_pipeline: feature_extraction reads flights_sel, the
\* input of clean_data, instead of its output.
create_pipeline_Miswired ==
  <<[func |-> "select_cols", inputs |-> <<"flights", "parameters">>,
     outputs |-> <<"flights_sel">>, name |-> "select_cols"],
    [func |-> "clean_data", inputs |-> <<"flights_sel", "parameters">>,
     outputs |-> <<"flights_cleaned">>, name |-> "clean_data"],
    [func |-> "feature_extraction", inputs |-> <<"flights_sel", "parameters">>,
     outputs |-> <<"flights_features">>, name |-> "feature_extraction"],
    [func |-> "split_data", inputs |-> <<"flights_features", "parameters">>,
     outputs |-> <<"X_train", "X_test", "y_train", "y_test">>, name |-> "split_data"]>>

create_pipeline ==
  <<[func |-> "select_cols", inputs |-> <<"flights", "parameters">>,
     outputs |-> <<"flights_sel">>, name |-> "select_cols"],
    [func |-> "clean_data", inputs |-> <<"flights_sel", "parameters">>,
     outputs |-> <<"flights_cleaned">>, name |-> "clean_data"],
    [func |-> "feature_extraction", inputs |-> <<"flights_cleaned", "parameters">>,
     outputs |-> <<"flights_features">>, name |-> "feature_extraction"],
    [func |-> "split_data", inputs |-> <<"flights_features", "parameters">>,
     outputs |-> <<"X_train", "X_test", "y_train", "y_test">>, name |-> "split_data"]>>

\* The call of a node's function on its table and the parameters.
Call(func, t, params, draws) ==
  CASE func = "select_cols" -> select_cols(t, params)
    [] func = "clean_data" -> clean_data(t, params)
    [] func = "feature_extraction" -> feature_extraction(t, params)
    [] func = "split_data" -> split_data(t, params, draws)

(***************************************************************************)
(* Inputs: the raw flights table and the configuration.                    *)
(***************************************************************************)
RawCols == <<"Reporting_Airline", "DepTime", "FlightDate", "DepDelay">>

Date_2015_03_10 == StrV(<<"2", "0", "1", "5", "-", "0", "3", "-", "1", "0">>)

Date_2016_11_02 == StrV(<<"2", "0", "1", "6", "-", "1", "1", "-", "0", "2">>)

\* Rows of the raw table: well-formed ones, an airline code of three letters,
\* a missing cell, a negative time, a date of one segment, and (in a table
\* whose DepTime column is of string type) a time and a month that are no
\* numbers.
RowPool ==
  { <<StrV(<<" ", "a", "a", " ">>), IntV(1345), Date_2015_03_10, IntV(1)>>,
    <<StrV(<<"A", "A", "L">>), IntV(930), Date_2016_11_02, IntV(0)>>,
    <<StrV(<<"U", "A">>), IntV(-150), StrV(<<"2", "0", "1", "5">>), IntV(1)>>,
    <<StrV(<<"U", "A">>), Null, Date_2015_03_10, IntV(0)>>,
    <<StrV(<<"U", "A">>), StrV(<<"a", "b">>),
      StrV(<<"2", "0", "1", "5", "-", "x", "x">>), IntV(1)>>,
    <<StrV(<<"d", "l">>), StrV(<<"1", "3", "4", "5">>), Date_2015_03_10, IntV(0)>> }

\* A column has one type: DepTime is an integer column or a string column.
OneType(rows) ==
  \A i, j \in 1..Len(rows) :
    rows[i][2].k = "null" \/ rows[j][2].k = "null" \/ rows[i][2].k = rows[j][2].k

InputTables ==
  { [cols |-> RawCols, rows |-> rows] :
      rows \in { rs \in UNION { [1..n -> RowPool] : n \in 0..MaxRows } : OneType(rs) } }

LColsChoices ==
  { RawCols,
    <<"DepDelay", "FlightDate", "DepTime", "Reporting_Airline">>,
    <<"DepTime", "FlightDate", "DepDelay">>,
    <<"Reporting_Airline", "DepDelay">>,
    <<"Reporting_Airline", "Origin">> }

FeaturesChoices ==
  { <<"Airline", "DepHour", "DepMonth", "DepYear", "DepDelay">>,
    <<"DepDelay", "DepHour">>,
    <<"DepHour", "Distance">> }

TargetChoices == {"DepDelay", "Airline"}

\* train_fraction, in tenths: 0, 0.5, 1 and 1.5.
TrainFractions == {0, 5, 10, 15}

\* The random numbers a split may draw for a row, in tenths: 0.2 and 0.7.
DrawValues == {2, 7}

Configs ==
  [l_cols : LColsChoices, features : FeaturesChoices,
   target_column : TargetChoices, train_fraction : TrainFractions]

DefaultParams ==
  [l_cols |-> RawCols, features |-> <<"DepDelay", "DepHour">>,
   target_column |-> "DepDelay", train_fraction |-> 5]

EmptyTable == [cols |-> <<>>, rows |-> <<>>]

NoCall == [op |-> "none", params |-> DefaultParams, draws |-> <<>>, in |-> EmptyTable,
           err |-> "none", out |-> <<>>]

(***************************************************************************)
(* Spec: the node functions called directly.  df is the table at hand,     *)
(* trace the calls that produced it, res the last call: its function,      *)
(* parameters, random draws, input table, error and output tables.         *)
(***************************************************************************)
Init ==
  /\ df \in InputTables
  /\ res = NoCall
  /\ trace = <<>>
  /\ catalog = <<>>
  /\ parameters = DefaultParams
  /\ log = <<>>

\* df is the raw table or the output of the last call: calls are chained on
\* the table a call returned, and a chain ends with a failed call or a split.
Chained == res.op = "none" \/ (res.err = "none" /\ res.out = <<df>>)

\* A call of a function returning one table: the output becomes the table at hand.
Apply(op, params) ==
  LET r == Call(op, df, params, <<>>)
  IN  /\ r.err = "none" => Len(trace) < MaxCalls
      /\ res' = [op |-> op, params |-> params, draws |-> <<>>, in |-> df,
                 err |-> r.err, out |-> r.out]
      /\ df' = IF r.err = "none" THEN r.out[1] ELSE df
      /\ trace' = IF r.err = "none" THEN Append(trace, op) ELSE trace
      /\ UNCHANGED <<catalog, parameters, log>>

SelectCols ==
  /\ Chained
  /\ \E l \in LColsChoices : Apply("select_cols", [DefaultParams EXCEPT !.l_cols = l])

CleanData ==
  /\ Chained
  /\ Apply("clean_data", DefaultParams)

FeatureExtraction ==
  /\ Chained
  /\ Apply("feature_extraction", DefaultParams)

SplitData ==
  /\ Chained
  /\ \E f \in FeaturesChoices, t \in TargetChoices, tf \in TrainFractions,
        draws \in [1..Len(df.rows) -> DrawValues] :
       LET params == [DefaultParams EXCEPT !.features = f, !.target_column = t,
                                           !.train_fraction = tf]
           r == split_data(df, params, draws)
       IN  res' = [op |-> "split_data", params |-> params, draws |-> draws, in |-> df,
                   err |-> r.err, out |-> r.out]
  /\ UNCHANGED <<df, trace, catalog, parameters, log>>

Next == SelectCols \/ CleanData \/ FeatureExtraction \/ SplitData

Spec == Init /\ [][Next]_vars

(***************************************************************************)
(* PipelineSpec: one run of the pipeline.  catalog maps the names of the   *)
(* datasets that exist to their tables; log records each node invocation.  *)
(* A node runs once, when all its inputs exist; an exception of a node     *)
(* stops the run and stores no output.                                     *)
(***************************************************************************)
PInit ==
  /\ \E t \in InputTables : catalog = ("flights" :> t)
  /\ parameters \in Configs
  /\ log = <<>>
  /\ df = EmptyTable
  /\ res = NoCall
  /\ trace = <<>>

Available(name) == name = "parameters" \/ name \in DOMAIN catalog

\* No node has raised: the run goes on.
Running == \A i \in 1..Len(log) : log[i].err = "none"

RunNode(n) ==
  /\ \A i \in 1..Len(log) : log[i].node # n.name
  /\ \A i \in 1..Len(n.inputs) : Available(n.inputs[i])
  /\ LET t == catalog[n.inputs[1]]
     IN  \E draws \in (IF n.func = "split_data" THEN [1..Len(t.rows) -> DrawValues]
                       ELSE {<<>>}) :
           LET r == Call(n.func, t, parameters, draws)
           IN  /\ log' = Append(log, [node |-> n.name, in |-> t, params |-> parameters,
                                      err |-> r.err, out |-> r.out])
               /\ catalog' = IF r.err = "none"
                             THEN catalog @@ [o \in {n.outputs[i] : i \in 1..Len(n.outputs)} |->
                                                r.out[CHOOSE i \in 1..Len(n.outputs) : n.outputs[i] = o]]
                             ELSE catalog
  /\ UNCHANGED <<parameters, df, res, trace>>

RunSelectCols ==
  /\ Running
  /\ RunNode(create_pipeline[1])

RunCleanData ==
  /\ Running
  /\ RunNode(create_pipeline[2])

RunFeatureExtraction ==
  /\ Running
  /\ RunNode(create_pipeline[3])

RunSplitData ==
  /\ Running
  /\ RunNode(create_pipeline[4])

PNext == RunSelectCols \/ RunCleanData \/ RunFeatureExtraction \/ RunSplitData

PipelineSpec == PInit /\ [][PNext]_vars

(***************************************************************************)
(* Properties.  Under Spec they speak of the last call, res; under         *)
(* PipelineSpec of the log of the run.                                     *)
(***************************************************************************)
ColSet(t) == {t.cols[i] : i \in 1..Len(t.cols)}

Names(seq) == {seq[i] : i \in 1..Len(seq)}

Cell(t, r, c) == t.rows[r][ColIndex(t, c)]

NoNulls(t) == \A r \in 1..Len(t.rows) : \A j \in 1..Len(t.rows[r]) : ~isNull(t.rows[r][j])

\* Row r of t as a mapping from column name to cell.
RowRec(t, r) == [c \in ColSet(t) |-> Cell(t, r, c)]

\* The bag of the values f[i], i in I.
BagOver(f, I) == [x \in {f[i] : i \in I} |-> Cardinality({i \in I : f[i] = x})]

RowBag(t) == BagOver([r \in 1..Len(t.rows) |-> RowRec(t, r)], 1..Len(t.rows))

Succeeded(n) == res.err = "none" /\ Len(res.out) = n

Failed(e) == res.err = e /\ res.out = <<>>

\* C1: for a table and an l_cols naming only columns of the table, select_cols
\* returns a table whose column list is exactly l_cols, in that order, and
\* whose rows are the input rows projected onto those columns: as many rows
\* as the input has.
C1_SelectProjects ==
  (res.op = "select_cols" /\ Names(res.params.l_cols) \subseteq ColSet(res.in)) =>
    /\ Succeeded(1)
    /\ res.out[1].cols = res.params.l_cols
    /\ Len(res.out[1].rows) = Len(res.in.rows)
    /\ \A r \in 1..Len(res.in.rows) :
         /\ Len(res.out[1].rows[r]) = Len(res.params.l_cols)
         /\ \A j \in 1..Len(res.params.l_cols) :
              res.out[1].rows[r][j] = Cell(res.in, r, res.params.l_cols[j])

\* A selection that reorders or narrows the columns of a table of two rows or more.
C1_Witness ==
  /\ res.op = "select_cols"
  /\ Succeeded(1)
  /\ Len(res.in.rows) >= 2
  /\ res.out[1].cols # res.in.cols
  /\ res.out[1].cols = res.params.l_cols

\* The row of the Reporting_Airline cell of an input row is complete and its
\* code, upper-cased and trimmed, has two characters.
KeptByCleaner(t, r) ==
  /\ \A j \in 1..Len(t.cols) : ~isNull(t.rows[r][j])
  /\ Len(trim(upper(Cell(t, r, "Reporting_Airline"))).s) = 2

\* What the cleaner makes of input row r: Airline in place of Reporting_Airline.
CleanedRow(t, out, r) ==
  [c \in ColSet(out) |->
     IF c = "Airline" THEN trim(upper(Cell(t, r, "Reporting_Airline"))) ELSE Cell(t, r, c)]

\* C2: for a table with a Reporting_Airline column, clean_data keeps a row if
\* and only if it has no null and its upper-cased, trimmed Reporting_Airline has
\* length 2 (" aa " is kept as "AA", "AAL" is dropped); so the output has no
\* null, every Airline has length 2, there is no Reporting_Airline column and
\* there are no more rows than in the input.
C2_CleanKeepsExactly ==
  (res.op = "clean_data" /\ HasCol(res.in, "Reporting_Airline")) =>
    /\ Succeeded(1)
    /\ LET t == res.in
           out == res.out[1]
           kept == {r \in 1..Len(t.rows) : KeptByCleaner(t, r)}
       IN  /\ ColSet(out) = (ColSet(t) \ {"Reporting_Airline"}) \cup {"Airline"}
           /\ Len(out.cols) = Cardinality(ColSet(out))
           /\ RowBag(out) = BagOver([r \in 1..Len(t.rows) |-> CleanedRow(t, out, r)], kept)
           /\ NoNulls(out)
           /\ \A r \in 1..Len(out.rows) : Len(Cell(out, r, "Airline").s) = 2
           /\ Len(out.rows) <= Len(t.rows)
           /\ \A r \in 1..Len(t.rows) :
                LET code == Cell(t, r, "Reporting_Airline")
                IN  /\ (code = StrV(<<" ", "a", "a", " ">>) /\ r \in kept) =>
                         \E q \in 1..Len(out.rows) :
                           Cell(out, q, "Airline") = StrV(<<"A", "A">>)
                    /\ code = StrV(<<"A", "A", "L">>) => r \notin kept

\* A cleaning that keeps the row of " aa " and drops another row.
C2_Witness ==
  /\ res.op = "clean_data"
  /\ Succeeded(1)
  /\ \E r \in 1..Len(res.in.rows) :
       /\ Cell(res.in, r, "Reporting_Airline") = StrV(<<" ", "a", "a", " ">>)
       /\ KeptByCleaner(res.in, r)
  /\ Len(res.out[1].rows) = 1
  /\ Len(res.in.rows) = 2

\* The configuration of the last call suits its input: the features are
\* columns of the table, the target is one of them and the train fraction
\* is strictly between 0 and 1.
ValidSplitConfig ==
  /\ Names(res.params.features) \subseteq ColSet(res.in)
  /\ res.params.target_column \in Names(res.params.features)
  /\ res.params.train_fraction > 0
  /\ res.params.train_fraction < 10

\* Row r of the feature table X joined with row r of the label table y.
Joined(X, y) == [r \in 1..Len(X.rows) |-> RowRec(X, r) @@ RowRec(y, r)]

\* The input rows restricted to the features.
FeatureRows(t, features) ==
  [r \in 1..Len(t.rows) |-> [c \in Names(features) |-> Cell(t, r, c)]]

\* C3: for a valid configuration split_data puts every input row in exactly
\* one of the train and test partitions, whatever the random draws:
\* rowcount(X_train) + rowcount(X_test) = rowcount(input),
\* rowcount(y_train) = rowcount(X_train), rowcount(y_test) = rowcount(X_test).
C3_SplitIsPartition ==
  (res.op = "split_data" /\ ValidSplitConfig) =>
    /\ Succeeded(4)
    /\ LET X_train == res.out[1]
           X_test == res.out[2]
           y_train == res.out[3]
           y_test == res.out[4]
       IN  /\ Len(X_train.rows) + Len(X_test.rows) = Len(res.in.rows)
           /\ Len(y_train.rows) = Len(X_train.rows)
           /\ Len(y_test.rows) = Len(X_test.rows)
           /\ BagOver(Joined(X_train, y_train), 1..Len(X_train.rows))
                (+) BagOver(Joined(X_test, y_test), 1..Len(X_test.rows))
              = BagOver(FeatureRows(res.in, res.params.features), 1..Len(res.in.rows))

\* A split of two rows or more that puts rows in both partitions.
C3_Witness ==
  /\ res.op = "split_data"
  /\ ValidSplitConfig
  /\ Succeeded(4)
  /\ Len(res.in.rows) >= 2
  /\ Len(res.out[1].rows) >= 1
  /\ Len(res.out[2].rows) >= 1

\* The features without the target, in the order of the configuration.
FeaturesWithoutTarget(params) ==
  Filter(params.features,
         [i \in 1..Len(params.features) |-> params.features[i] # params.target_column])

\* C4: when target_column is one of features (and the configuration is
\* otherwise valid), split_data returns (X_train, X_test, y_train, y_test) in
\* that order: X_train and X_test have exactly the features other than the
\* target, y_train and y_test the target column alone, y_train of the rows of
\* X_train's partition and y_test of the rows of X_test's.
C4_SplitShapes ==
  (res.op = "split_data" /\ ValidSplitConfig) =>
    /\ Succeeded(4)
    /\ LET p == res.params
           train == {r \in 1..Len(res.in.rows) : res.draws[r] < p.train_fraction}
           test == (1..Len(res.in.rows)) \ train
           rows == FeatureRows(res.in, p.features)
       IN  /\ res.out[1].cols = FeaturesWithoutTarget(p)
           /\ res.out[2].cols = FeaturesWithoutTarget(p)
           /\ res.out[3].cols = <<p.target_column>>
           /\ res.out[4].cols = <<p.target_column>>
           /\ ~HasCol(res.out[1], p.target_column)
           /\ ~HasCol(res.out[2], p.target_column)
           /\ Len(res.out[3].rows) = Len(res.out[1].rows)
           /\ Len(res.out[4].rows) = Len(res.out[2].rows)
           /\ BagOver(Joined(res.out[1], res.out[3]), 1..Len(res.out[1].rows))
                = BagOver(rows, train)
           /\ BagOver(Joined(res.out[2], res.out[4]), 1..Len(res.out[2].rows))
                = BagOver(rows, test)

\* A split whose train and test partitions hold different rows.
C4_Witness ==
  /\ res.op = "split_data"
  /\ ValidSplitConfig
  /\ Succeeded(4)
  /\ Len(res.params.features) >= 3
  /\ Len(res.out[3].rows) >= 1
  /\ Len(res.out[4].rows) >= 1
  /\ res.out[3].rows # res.out[4].rows

\* C5: split_data fails with a ConfigurationError, returning no table,
\* whenever target_column is not in features or train_fraction is not
\* strictly between 0 and 1.  Stated for any kind of error (the call is to
\* fail, whatever the engine names the error) and for a table that has rows.
C5_RejectsBadConfig ==
  (/\ res.op = "split_data"
   /\ Len(res.in.rows) >= 1
   /\ Names(res.params.features) \subseteq ColSet(res.in)
   /\ \/ res.params.target_column \notin Names(res.params.features)
      \/ res.params.train_fraction <= 0
      \/ res.params.train_fraction >= 10) =>
    (res.err # "none" /\ res.out = <<>>)

\* C6: select_cols fails with a SchemaError (the engine's unresolved-column
\* error) when a name of l_cols is no column of the table, and clean_data
\* when the table has no Reporting_Airline column; no table is produced and
\* the caller gets the error.
C6_SchemaErrors ==
  /\ (res.op = "select_cols" /\ ~(Names(res.params.l_cols) \subseteq ColSet(res.in))) =>
       (Failed(AnalysisException) /\ df = res.in)
  /\ (res.op = "clean_data" /\ ~HasCol(res.in, "Reporting_Airline")) =>
       (Failed(AnalysisException) /\ df = res.in)

\* clean_data called on a table from which select_cols left out
\* Reporting_Airline.
C6_Witness ==
  /\ res.op = "clean_data"
  /\ ~HasCol(res.in, "Reporting_Airline")
  /\ Failed(AnalysisException)
  /\ trace = <<"select_cols">>
  /\ Len(res.in.rows) >= 1

\* A table as clean_data followed by feature_extraction leaves it.
CleanedAndDerived(t) ==
  /\ {"Airline", "DepHour", "DepMonth", "DepYear"} \subseteq ColSet(t)
  /\ ColSet(t) \cap {"Reporting_Airline", "DepTime", "FlightDate"} = {}
  /\ NoNulls(t)
  /\ \A r \in 1..Len(t.rows) : Len(Cell(t, r, "Airline").s) = 2

\* C7 as stated: clean_data and feature_extraction applied to a table that is
\* already cleaned and derived (here one that has rows) succeed and return
\* their input.
C7_Idempotent ==
  (/\ res.op \in {"clean_data", "feature_extraction"}
   /\ CleanedAndDerived(res.in)
   /\ Len(res.in.rows) >= 1) =>
    (Succeeded(1) /\ res.out[1] = res.in)

\* C7, amended: on a table that is already cleaned and derived, clean_data
\* fails with the unresolved-column error (Reporting_Airline is gone) and so
\* does feature_extraction (DepTime is gone); neither returns a table.
C7_RerunFails ==
  (res.op \in {"clean_data", "feature_extraction"} /\ CleanedAndDerived(res.in)) =>
    (Failed(AnalysisException) /\ df = res.in)

\* clean_data called again on the output of clean_data then feature_extraction.
C7_Witness ==
  /\ res.op = "clean_data"
  /\ trace = <<"clean_data", "feature_extraction">>
  /\ res.in = df
  /\ CleanedAndDerived(res.in)
  /\ Len(res.in.rows) >= 1
  /\ res.err # "none"

\* The cell is a number: of an integer column, or a string that reads as one.
IsNumeric(v) == v.k = "int" \/ (v.k = "str" /\ ~isNull(ParseNumber(v.s)))

NumberOf(v) == IF v.k = "int" THEN v.n ELSE ParseNumber(v.s).n

\* The cell is a string of two or more "-"-delimited segments, the first two
\* of which are integers.
IsDate(v) ==
  /\ v.k = "str"
  /\ Len(SplitChars(v.s, "-", <<>>)) >= 2
  /\ AllDigits(SplitChars(v.s, "-", <<>>)[1])
  /\ AllDigits(SplitChars(v.s, "-", <<>>)[2])

\* What C9 says of the schema and of the dates, and the two examples.
DerivedShape(t, out) ==
  /\ {"DepHour", "DepMonth", "DepYear"} \subseteq ColSet(out)
  /\ ColSet(out) \cap {"DepTime", "FlightDate"} = {}
  /\ ColSet(out) = (ColSet(t) \ {"DepTime", "FlightDate"}) \cup {"DepHour", "DepMonth", "DepYear"}
  /\ Len(out.rows) = Len(t.rows)
  /\ \A r \in 1..Len(t.rows) :
       /\ \A c \in ColSet(t) \ {"DepTime", "FlightDate", "DepHour", "DepMonth", "DepYear"} :
            Cell(out, r, c) = Cell(t, r, c)
       /\ IsDate(Cell(t, r, "FlightDate")) =>
            /\ Cell(out, r, "DepYear")
                 = IntV(DigitsVal(SplitChars(Cell(t, r, "FlightDate").s, "-", <<>>)[1]))
            /\ Cell(out, r, "DepMonth")
                 = IntV(DigitsVal(SplitChars(Cell(t, r, "FlightDate").s, "-", <<>>)[2]))
       /\ Cell(t, r, "FlightDate") = Date_2015_03_10 =>
            (Cell(out, r, "DepYear") = IntV(2015) /\ Cell(out, r, "DepMonth") = IntV(3))
       /\ Cell(t, r, "DepTime") = IntV(1345) => Cell(out, r, "DepHour") = IntV(13)

\* C9 as stated: for a table with DepTime and FlightDate, feature_extraction
\* returns a table with DepHour, DepMonth, DepYear and without DepTime and
\* FlightDate, the other columns unchanged; DepHour is DepTime / 100 floored,
\* for a numeric DepTime of either sign; DepYear and DepMonth are the integers
\* at positions 0 and 1 of the date.
C9_HourIsFloor ==
  (res.op = "feature_extraction" /\ {"DepTime", "FlightDate"} \subseteq ColSet(res.in)) =>
    /\ Succeeded(1)
    /\ DerivedShape(res.in, res.out[1])
    /\ \A r \in 1..Len(res.in.rows) :
         IsNumeric(Cell(res.in, r, "DepTime")) =>
           Cell(res.out[1], r, "DepHour") = IntV(NumberOf(Cell(res.in, r, "DepTime")) \div 100)

\* C9, amended: as C9, but DepHour is DepTime / 100 with the fraction
\* discarded (rounded toward zero), which is the floor only when DepTime >= 0.
C9_HourIsTruncation ==
  (res.op = "feature_extraction" /\ {"DepTime", "FlightDate"} \subseteq ColSet(res.in)) =>
    /\ Succeeded(1)
    /\ DerivedShape(res.in, res.out[1])
    /\ \A r \in 1..Len(res.in.rows) :
         IsNumeric(Cell(res.in, r, "DepTime")) =>
           LET t == NumberOf(Cell(res.in, r, "DepTime"))
           IN  /\ t >= 0 => Cell(res.out[1], r, "DepHour") = IntV(t \div 100)
               /\ t < 0 => Cell(res.out[1], r, "DepHour") = IntV(0 - ((0 - t) \div 100))

\* A derivation from a row of negative DepTime next to the row of 1345.
C9_Witness ==
  /\ res.op = "feature_extraction"
  /\ Succeeded(1)
  /\ \E r \in 1..Len(res.in.rows) :
       /\ Cell(res.in, r, "DepTime") = IntV(-150)
       /\ Cell(res.out[1], r, "DepHour") = IntV(-1)
  /\ \E r \in 1..Len(res.in.rows) :
       /\ Cell(res.in, r, "DepTime") = IntV(1345)
       /\ Cell(res.in, r, "FlightDate") = Date_2015_03_10
       /\ Cell(res.out[1], r, "DepHour") = IntV(13)

\* C10: feature_extraction neither fails on nor drops a row of malformed
\* values: a non-numeric DepTime gives a null DepHour, a FlightDate of fewer
\* than two segments a null DepMonth, a non-integer segment a null DepYear or
\* DepMonth; the output has as many rows as the input, and may hold nulls
\* though its input held none.
C10_MalformedGivesNull ==
  (res.op = "feature_extraction" /\ {"DepTime", "FlightDate"} \subseteq ColSet(res.in)) =>
    /\ Succeeded(1)
    /\ Len(res.out[1].rows) = Len(res.in.rows)
    /\ \A r \in 1..Len(res.in.rows) :
         LET time == Cell(res.in, r, "DepTime")
             date == Cell(res.in, r, "FlightDate")
             segs == SplitChars(date.s, "-", <<>>)
         IN  /\ (time.k = "str" /\ ~IsNumeric(time)) => isNull(Cell(res.out[1], r, "DepHour"))
             /\ date.k = "str" =>
                  /\ Len(segs) < 2 => isNull(Cell(res.out[1], r, "DepMonth"))
                  /\ (Len(segs) >= 2 /\ ~AllDigits(segs[2])) =>
                       isNull(Cell(res.out[1], r, "DepMonth"))
                  /\ ~AllDigits(segs[1]) => isNull(Cell(res.out[1], r, "DepYear"))

\* The output of clean_data, free of nulls, gets a null DepHour and a null
\* DepMonth from feature_extraction.
C10_Witness ==
  /\ res.op = "feature_extraction"
  /\ trace = <<"clean_data", "feature_extraction">>
  /\ Succeeded(1)
  /\ NoNulls(res.in)
  /\ Len(res.in.rows) >= 2
  /\ \E r \in 1..Len(res.out[1].rows) :
       isNull(Cell(res.out[1], r, "DepHour")) /\ isNull(Cell(res.out[1], r, "DepMonth"))
  /\ \E r \in 1..Len(res.out[1].rows) :
       ~isNull(Cell(res.out[1], r, "DepHour")) /\ ~isNull(Cell(res.out[1], r, "DepMonth"))

\* The order of the stages.
StageOrder == <<"select_cols", "clean_data", "feature_extraction", "split_data">>

SplitOutputs == {"X_train", "X_test", "y_train", "y_test"}

\* C8: in a pipeline run the stages run in the order select_cols, clean_data,
\* feature_extraction, split_data, each at most once, each on the table the
\* stage before it produced (the first on flights) and on the one unchanged
\* configuration; once a stage has failed no later stage runs and none of
\* X_train, X_test, y_train, y_test exists.
C8_LinearFailFast ==
  /\ Len(log) <= Len(StageOrder)
  /\ \A i \in 1..Len(log) :
       /\ log[i].node = StageOrder[i]
       /\ log[i].params = parameters
       /\ i = 1 => log[i].in = catalog["flights"]
       /\ i > 1 => (log[i - 1].err = "none" /\ log[i].in = log[i - 1].out[1])
  /\ (\E i \in 1..Len(log) : log[i].err # "none") => DOMAIN catalog \cap SplitOutputs = {}
  /\ Len(log) < Len(StageOrder) => DOMAIN catalog \cap SplitOutputs = {}

\* A run of all four stages on two rows or more that leaves rows in X_train.
C8_Witness ==
  /\ Len(log) = 4
  /\ \A i \in 1..4 : log[i].err = "none"
  /\ Len(catalog["flights"].rows) >= 2
  /\ SplitOutputs \subseteq DOMAIN catalog
  /\ Len(catalog["X_train"].rows) >= 1
  /\ catalog["X_train"] = log[4].out[1]
  /\ catalog["y_test"] = log[4].out[4]

====
